---- MODULE Spec2Model ----
(***************************************************************************)
(* Battery power control (soft-power) for ATtiny13 / ATtiny4/5/9/10.       *)
(* The model follows code-attiny13.c; PollState and main's port setup are  *)
(* the same in code-attiny4_5_9_10.c (only register names differ).         *)
(*                                                                         *)
(* One PollState action is one iteration of main's loop: the inputs are    *)
(* sampled from PINB, the two static counters are updated and the switch   *)
(* on pwrCtrlState is executed.  PINB_BUTTON and PINB_CPU_CTRL hold the    *)
(* pin levels as they were sampled by the latest cycle (or as they changed *)
(* during sleep).                                                          *)
(***************************************************************************)
EXTENDS Naturals, Integers, FiniteSets, Sequences, TLC

(* ---- program constants ------------------------------------------------ *)
PWR_STATE_off == 0
PWR_STATE_on == 1
PWR_STATE_on_off == 2
DELAY_1S_CNT == 85
UINT16 == 65536

(* ---- bounds of the model ---------------------------------------------- *)
\* a cycle is not taken once btnTime (button held) has reached MaxBtnTime
MaxBtnTime == 345
\* a cycle is not taken once waitTimer has reached MaxWaitTimer
MaxWaitTimer == 860

VARIABLES
  pwrCtrlState,      \* uint8_t pwrCtrlState
  btnTime,           \* static uint16_t btnTime
  waitTimer,         \* static uint16_t waitTimer
  PORTB_PWR,         \* PORTB bit GPO_PWR (1 = power off, active low)
  DDRB_CPU_BUTTON,   \* DDRB bit GPIO_CPU_BUTTON (1 = output low, 0 = tristate)
  PINB_BUTTON,       \* PINB bit GPI_BUTTON (0 = pressed)
  PINB_CPU_CTRL,     \* PINB bit GPI_CPU_CTRL (1 = power-on request)
  pc,                \* "run": main loop; "L123".."L130": about to execute that line of
                     \* PollState; "sleep": in sleep_cpu(); "wdreset": woken, lines 134-135
  GIFR_PCIF,         \* GIFR bit PCIF: pin change interrupt pending
  GIMSK_PCIE,        \* GIMSK bit PCIE: pin change interrupt enabled
  SREG_I,            \* SREG bit 7: global interrupt enable
  PCMSK_ARMED,       \* PCMSK bits GPI_BUTTON and GPI_CPU_CTRL (set together, line 126)
  MCUCR_SE,          \* MCUCR bit SE: sleep enable
  \* history variables (not read by the program)
  lastFrom,          \* pwrCtrlState at the start of the latest cycle since reset, -1 if none
  pressRun,          \* consecutive cycles since reset in which the button read pressed
  quietRun,          \* consecutive cycles since reset in which both inputs read false
  runKind,           \* "fresh" | "press" | "quiet" | "mixed": what all cycles since reset read
  heldSinceReset,    \* TRUE once a cycle that started in off saw btnTime > 1*DELAY_1S_CNT
  hostSeen,          \* TRUE once a cycle since reset read HostPowerRequest true
  sinceHeld,         \* in off: cycles since reset or since the latest cycle with
                     \* btnTime > 1*DELAY_1S_CNT; 0 outside off
  settleCnt,         \* cycles that started in on_off since on_off was entered
  edgeLost,          \* TRUE once the ISR has run for a pin change before sleep_cpu()
  wait               \* the call of WaitMs under study (specifications SpecWait and
                     \* SpecWaitSkip): a record, see WaitCall; NoWait in Spec

vars == <<pwrCtrlState, btnTime, waitTimer, PORTB_PWR, DDRB_CPU_BUTTON,
          PINB_BUTTON, PINB_CPU_CTRL, pc,
          GIFR_PCIF, GIMSK_PCIE, SREG_I, PCMSK_ARMED, MCUCR_SE,
          lastFrom, pressRun, quietRun, runKind, heldSinceReset,
          hostSeen, sinceHeld, settleCnt, edgeLost, wait>>

\* the interrupt and sleep control bits
sleepRegs == <<GIFR_PCIF, GIMSK_PCIE, SREG_I, PCMSK_ARMED, MCUCR_SE>>

\* what PollState reads and writes outside the sleep sequence
progVars == <<pwrCtrlState, btnTime, waitTimer, PORTB_PWR, DDRB_CPU_BUTTON>>

\* the history variables
histVars == <<lastFrom, pressRun, quietRun, runKind, heldSinceReset,
              hostSeen, sinceHeld, settleCnt, edgeLost>>

(* ---- logical signals of the specification ----------------------------- *)
ButtonPressed == PINB_BUTTON = 0
HostPowerRequest == PINB_CPU_CTRL = 1
PowerOutputEnabled == PORTB_PWR = 0
HostButtonSignal == IF DDRB_CPU_BUTTON = 1 THEN "DrivenLow" ELSE "HighImpedance"

(* ---- PollState -------------------------------------------------------- *)
\* the program state PollState works on, as a record
Ctx == [pwrCtrlState |-> pwrCtrlState, btnTime |-> btnTime, waitTimer |-> waitTimer,
        PORTB_PWR |-> PORTB_PWR, DDRB_CPU_BUTTON |-> DDRB_CPU_BUTTON, pc |-> pc]

\* variant of BtnTimeUpdate: the else branch (btnTime = 0) is missing
BtnTimeUpdate_NoReset(bt, pinButton) ==
  IF pinButton = 0 THEN (bt + 1) % UINT16 ELSE bt

\* lines 69-74: button pressed (pin low) counts up, else reset
BtnTimeUpdate(bt, pinButton) ==
  IF pinButton = 0 THEN (bt + 1) % UINT16 ELSE 0

\* lines 69-75
Counters(s, pinButton) ==
  [s EXCEPT !.btnTime = BtnTimeUpdate(s.btnTime, pinButton),
            !.waitTimer = (s.waitTimer + 1) % UINT16]

\* variant of IdleExpired: the idle test off by one (>= for >)
IdleExpired_AtLeast(s) == s.waitTimer >= 10 * DELAY_1S_CNT

\* line 79
IdleExpired(s) == s.waitTimer > 10 * DELAY_1S_CNT

\* variant of ButtonPowerOn: the hold test off by one (>= for >)
ButtonPowerOn_AtLeast(s) == s.btnTime >= 1 * DELAY_1S_CNT

\* variant of ButtonPowerOn: no hold time, any pressed reading powers on
ButtonPowerOn_NoHold(s) == s.btnTime > 0

\* line 83
ButtonPowerOn(s) == s.btnTime > 1 * DELAY_1S_CNT

\* variant of ButtonPowerOff: the long-hold test off by one (>= for >)
ButtonPowerOff_AtLeast(s) == s.btnTime >= 4 * DELAY_1S_CNT

\* line 103
ButtonPowerOff(s) == s.btnTime > 4 * DELAY_1S_CNT

\* line 119
SettleExpired(s) == s.waitTimer > 3 * DELAY_1S_CNT

\* variant of CaseOff: the three ifs as an if / else-if chain (first match only)
CaseOff_FirstMatch(s, pinCpu) ==
  IF IdleExpired(s)
  THEN [s EXCEPT !.PORTB_PWR = 1, !.pwrCtrlState = PWR_STATE_on_off]
  ELSE IF ButtonPowerOn(s)
  THEN [s EXCEPT !.PORTB_PWR = 0, !.waitTimer = 0]
  ELSE IF pinCpu = 1
  THEN [s EXCEPT !.PORTB_PWR = 0, !.pwrCtrlState = PWR_STATE_on]
  ELSE s

\* variant of CaseOff: the host-request branch changes the state but does
\* not switch the power on
CaseOff_HostNoPower(s, pinCpu) ==
  LET s1 == IF IdleExpired(s)
            THEN [s EXCEPT !.PORTB_PWR = 1, !.pwrCtrlState = PWR_STATE_on_off]
            ELSE s
      s2 == IF ButtonPowerOn(s1)
            THEN [s1 EXCEPT !.PORTB_PWR = 0, !.waitTimer = 0]
            ELSE s1
      s3 == IF pinCpu = 1
            THEN [s2 EXCEPT !.pwrCtrlState = PWR_STATE_on]
            ELSE s2
  IN s3

\* lines 78-93: three independent ifs, executed in sequence
CaseOff(s, pinCpu) ==
  LET s1 == IF IdleExpired(s)
            THEN [s EXCEPT !.PORTB_PWR = 1, !.pwrCtrlState = PWR_STATE_on_off]
            ELSE s
      s2 == IF ButtonPowerOn(s1)
            THEN [s1 EXCEPT !.PORTB_PWR = 0, !.waitTimer = 0]
            ELSE s1
      s3 == IF pinCpu = 1
            THEN [s2 EXCEPT !.PORTB_PWR = 0, !.pwrCtrlState = PWR_STATE_on]
            ELSE s2
  IN s3

\* variant of CaseOn: the host-request-off branch forgets waitTimer = 0
CaseOn_NoTimerReset(s, pinCpu) ==
  IF pinCpu = 0
  THEN [s EXCEPT !.PORTB_PWR = 1, !.DDRB_CPU_BUTTON = 0,
                 !.pwrCtrlState = PWR_STATE_on_off]
  ELSE IF ButtonPowerOff(s)
  THEN [s EXCEPT !.PORTB_PWR = 1, !.DDRB_CPU_BUTTON = 0, !.waitTimer = 0,
                 !.pwrCtrlState = PWR_STATE_on_off]
  ELSE IF s.btnTime > 0
  THEN [s EXCEPT !.DDRB_CPU_BUTTON = 1]
  ELSE [s EXCEPT !.DDRB_CPU_BUTTON = 0]

\* variant of CaseOn: the else branch that releases GPIO_CPU_BUTTON is missing
CaseOn_NoRelease(s, pinCpu) ==
  IF pinCpu = 0
  THEN [s EXCEPT !.PORTB_PWR = 1, !.DDRB_CPU_BUTTON = 0, !.waitTimer = 0,
                 !.pwrCtrlState = PWR_STATE_on_off]
  ELSE IF ButtonPowerOff(s)
  THEN [s EXCEPT !.PORTB_PWR = 1, !.DDRB_CPU_BUTTON = 0, !.waitTimer = 0,
                 !.pwrCtrlState = PWR_STATE_on_off]
  ELSE IF s.btnTime > 0
  THEN [s EXCEPT !.DDRB_CPU_BUTTON = 1]
  ELSE s

\* variant of CaseOn: the long-hold branch leaves GPIO_CPU_BUTTON driven low
CaseOn_HoldKeepsLow(s, pinCpu) ==
  IF pinCpu = 0
  THEN [s EXCEPT !.PORTB_PWR = 1, !.DDRB_CPU_BUTTON = 0, !.waitTimer = 0,
                 !.pwrCtrlState = PWR_STATE_on_off]
  ELSE IF ButtonPowerOff(s)
  THEN [s EXCEPT !.PORTB_PWR = 1, !.waitTimer = 0,
                 !.pwrCtrlState = PWR_STATE_on_off]
  ELSE IF s.btnTime > 0
  THEN [s EXCEPT !.DDRB_CPU_BUTTON = 1]
  ELSE [s EXCEPT !.DDRB_CPU_BUTTON = 0]

\* lines 94-117: the first two ifs end with break
CaseOn(s, pinCpu) ==
  IF pinCpu = 0
  THEN [s EXCEPT !.PORTB_PWR = 1, !.DDRB_CPU_BUTTON = 0, !.waitTimer = 0,
                 !.pwrCtrlState = PWR_STATE_on_off]
  ELSE IF ButtonPowerOff(s)
  THEN [s EXCEPT !.PORTB_PWR = 1, !.DDRB_CPU_BUTTON = 0, !.waitTimer = 0,
                 !.pwrCtrlState = PWR_STATE_on_off]
  ELSE IF s.btnTime > 0
  THEN [s EXCEPT !.DDRB_CPU_BUTTON = 1]
  ELSE [s EXCEPT !.DDRB_CPU_BUTTON = 0]

\* lines 118-137: after the settle delay go through the sleep sequence
\* (lines 123-130, one action per line below)
CaseOnOff(s) ==
  IF SettleExpired(s)
  THEN [s EXCEPT !.pc = "L123"]
  ELSE s

\* variant of Switch: a host power request in on_off goes back to on
Switch_HostAborts(s, pinCpu) ==
  IF s.pwrCtrlState = PWR_STATE_off THEN CaseOff(s, pinCpu)
  ELSE IF s.pwrCtrlState = PWR_STATE_on THEN CaseOn(s, pinCpu)
  ELSE IF s.pwrCtrlState = PWR_STATE_on_off
  THEN IF pinCpu = 1
       THEN [s EXCEPT !.PORTB_PWR = 0, !.pwrCtrlState = PWR_STATE_on]
       ELSE CaseOnOff(s)
  ELSE s

\* lines 77-138
Switch(s, pinCpu) ==
  IF s.pwrCtrlState = PWR_STATE_off THEN CaseOff(s, pinCpu)
  ELSE IF s.pwrCtrlState = PWR_STATE_on THEN CaseOn(s, pinCpu)
  ELSE IF s.pwrCtrlState = PWR_STATE_on_off THEN CaseOnOff(s)
  ELSE s

\* lines 64-139
PollStateBody(s, pinButton, pinCpu) == Switch(Counters(s, pinButton), pinCpu)

\* what the cycles since reset have read, all alike or mixed
RunKindNext(k, pinButton, pinCpu) ==
  LET this == IF pinCpu = 1 THEN "mixed"
              ELSE IF pinButton = 0 THEN "press" ELSE "quiet"
  IN IF k = "fresh" \/ k = this THEN this ELSE "mixed"

\* one iteration of main's while(1): PollState(); WaitMs(POLL_DELAY_MS)
PollState ==
  /\ pc = "run"
  /\ waitTimer < MaxWaitTimer
  /\ \E pinButton \in {0, 1}, pinCpu \in {0, 1} :
       /\ pinButton = 0 => btnTime < MaxBtnTime
       /\ \E s \in {PollStateBody(Ctx, pinButton, pinCpu)},
             held \in {BtnTimeUpdate(btnTime, pinButton) > 1 * DELAY_1S_CNT} :
             /\ pwrCtrlState' = s.pwrCtrlState
             /\ btnTime' = s.btnTime
             /\ waitTimer' = s.waitTimer
             /\ PORTB_PWR' = s.PORTB_PWR
             /\ DDRB_CPU_BUTTON' = s.DDRB_CPU_BUTTON
             /\ pc' = s.pc
             /\ heldSinceReset' = (heldSinceReset \/ (pwrCtrlState = PWR_STATE_off /\ held))
             /\ sinceHeld' = IF s.pwrCtrlState # PWR_STATE_off \/ held THEN 0
                             ELSE sinceHeld + 1
             /\ settleCnt' = IF pwrCtrlState = PWR_STATE_on_off THEN settleCnt + 1 ELSE 0
       /\ PINB_BUTTON' = pinButton
       /\ PINB_CPU_CTRL' = pinCpu
       /\ lastFrom' = pwrCtrlState
       /\ pressRun' = IF pinButton = 0 THEN pressRun + 1 ELSE 0
       /\ quietRun' = IF pinButton = 1 /\ pinCpu = 0 THEN quietRun + 1 ELSE 0
       /\ runKind' = RunKindNext(runKind, pinButton, pinCpu)
       /\ hostSeen' = (hostSeen \/ pinCpu = 1)
  /\ UNCHANGED <<sleepRegs, edgeLost, wait>>

\* an interrupt is taken before the next instruction of the main program
IntPending == GIFR_PCIF = 1 /\ GIMSK_PCIE = 1 /\ SREG_I = 1

\* line 123: GIFR |= BIT(PCIF) clears a pending pin change interrupt
SleepL123 ==
  /\ pc = "L123" /\ ~IntPending
  /\ GIFR_PCIF' = 0
  /\ pc' = "L124"
  /\ UNCHANGED <<progVars, PINB_BUTTON, PINB_CPU_CTRL, histVars,
                 GIMSK_PCIE, SREG_I, PCMSK_ARMED, MCUCR_SE, wait>>

\* line 124: GIMSK |= BIT(PCIE)
SleepL124 ==
  /\ pc = "L124" /\ ~IntPending
  /\ GIMSK_PCIE' = 1
  /\ pc' = "L125"
  /\ UNCHANGED <<progVars, PINB_BUTTON, PINB_CPU_CTRL, histVars,
                 GIFR_PCIF, SREG_I, PCMSK_ARMED, MCUCR_SE, wait>>

\* line 125: SREG |= BIT(7)
SleepL125 ==
  /\ pc = "L125" /\ ~IntPending
  /\ SREG_I' = 1
  /\ pc' = "L126"
  /\ UNCHANGED <<progVars, PINB_BUTTON, PINB_CPU_CTRL, histVars,
                 GIFR_PCIF, GIMSK_PCIE, PCMSK_ARMED, MCUCR_SE, wait>>

\* line 126: PCMSK |= BIT(GPI_BUTTON) | BIT(GPI_CPU_CTRL)
SleepL126 ==
  /\ pc = "L126" /\ ~IntPending
  /\ PCMSK_ARMED' = 1
  /\ pc' = "L129"
  /\ UNCHANGED <<progVars, PINB_BUTTON, PINB_CPU_CTRL, histVars,
                 GIFR_PCIF, GIMSK_PCIE, SREG_I, MCUCR_SE, wait>>

\* line 129: MCUCR |= BIT(SE) | BIT(SM1)
SleepL129 ==
  /\ pc = "L129" /\ ~IntPending
  /\ MCUCR_SE' = 1
  /\ pc' = "L130"
  /\ UNCHANGED <<progVars, PINB_BUTTON, PINB_CPU_CTRL, histVars,
                 GIFR_PCIF, GIMSK_PCIE, SREG_I, PCMSK_ARMED, wait>>

\* line 130: sleep_cpu() stops the CPU when SE is set
SleepL130 ==
  /\ pc = "L130" /\ ~IntPending
  /\ pc' = IF MCUCR_SE = 1 THEN "sleep" ELSE "wdreset"
  /\ UNCHANGED <<progVars, PINB_BUTTON, PINB_CPU_CTRL, histVars, sleepRegs, wait>>

\* the program is between line 123 and the wake-up
InSleepSequence == pc \in {"L123", "L124", "L125", "L126", "L129", "L130", "sleep"}

\* a watched pin changes its level while the program is in the sleep
\* sequence or asleep (while the loop polls, pin changes are what the cycles
\* sample); the hardware sets PCIF when the pin is enabled in PCMSK
PinChange ==
  /\ InSleepSequence
  /\ \/ PINB_BUTTON' = 1 - PINB_BUTTON /\ PINB_CPU_CTRL' = PINB_CPU_CTRL
     \/ PINB_CPU_CTRL' = 1 - PINB_CPU_CTRL /\ PINB_BUTTON' = PINB_BUTTON
  /\ GIFR_PCIF' = IF PCMSK_ARMED = 1 THEN 1 ELSE GIFR_PCIF
  /\ UNCHANGED <<progVars, pc, histVars, GIMSK_PCIE, SREG_I, PCMSK_ARMED, MCUCR_SE, wait>>

\* lines 55-59: ISR(PCINT0_vect), empty; PCIF is cleared when the vector is
\* taken. It ends sleep_cpu() when the CPU sleeps, otherwise the interrupted
\* program continues where it was.
PinChangeWake ==
  /\ IntPending
  /\ GIFR_PCIF' = 0
  /\ pc' = IF pc = "sleep" THEN "wdreset" ELSE pc
  /\ edgeLost' = (edgeLost \/ pc # "sleep")
  /\ UNCHANGED <<progVars, PINB_BUTTON, PINB_CPU_CTRL,
                 GIMSK_PCIE, SREG_I, PCMSK_ARMED, MCUCR_SE,
                 lastFrom, pressRun, quietRun, runKind, heldSinceReset,
                 hostSeen, sinceHeld, settleCnt, wait>>

\* the state main's loop starts from: .bss/.data and registers after reset,
\* then lines 146-157
Baseline ==
  /\ pwrCtrlState = PWR_STATE_off
  /\ btnTime = 0
  /\ waitTimer = 0
  /\ PORTB_PWR = 1
  /\ DDRB_CPU_BUTTON = 0
  /\ pc = "run"

\* variant of WakeWDE: line 134 is missing, the watchdog stays disabled
WakeWDE_NotSet == FALSE

\* line 134: WDTCR |= BIT(WDE) enables the watchdog after the wake-up
WakeWDE == TRUE

\* lines 134-135 and 142-157: with the watchdog enabled the controller is
\* reset during WaitMs(20) (watchdog period 16 ms) and the program starts
\* over; with the watchdog disabled WaitMs(20) and PollState return
WatchdogReset ==
  /\ pc = "wdreset"
  /\ IF WakeWDE
     THEN /\ pwrCtrlState' = PWR_STATE_off
          /\ btnTime' = 0
          /\ waitTimer' = 0
          /\ PORTB_PWR' = 1
          /\ DDRB_CPU_BUTTON' = 0
          /\ pc' = "run"
          /\ GIFR_PCIF' = 0
          /\ GIMSK_PCIE' = 0
          /\ SREG_I' = 0
          /\ PCMSK_ARMED' = 0
          /\ MCUCR_SE' = 0
          /\ lastFrom' = -1
          /\ pressRun' = 0
          /\ quietRun' = 0
          /\ runKind' = "fresh"
          /\ heldSinceReset' = FALSE
          /\ hostSeen' = FALSE
          /\ sinceHeld' = 0
          /\ settleCnt' = 0
          /\ edgeLost' = FALSE
     ELSE /\ pc' = "run"
          /\ UNCHANGED <<progVars, sleepRegs, histVars>>
  /\ UNCHANGED <<PINB_BUTTON, PINB_CPU_CTRL, wait>>

\* no call of WaitMs is followed
NoWait == [variant |-> 0, ms |-> 0, tcnt |-> 0, cnt |-> 0, i |-> 0, pc |-> "none",
           start |-> 0, elapsed |-> 0, unsampled |-> 0, wrapped |-> FALSE]

\* the power controller at rest, in the specifications of WaitMs
PowerInit ==
  /\ Baseline
  /\ PINB_BUTTON = 1
  /\ PINB_CPU_CTRL = 0
  /\ GIFR_PCIF = 0
  /\ GIMSK_PCIE = 0
  /\ SREG_I = 0
  /\ PCMSK_ARMED = 0
  /\ MCUCR_SE = 0
  /\ lastFrom = -1
  /\ pressRun = 0
  /\ quietRun = 0
  /\ runKind = "fresh"
  /\ heldSinceReset = FALSE
  /\ hostSeen = FALSE
  /\ sinceHeld = 0
  /\ settleCnt = 0
  /\ edgeLost = FALSE

Init ==
  /\ wait = NoWait
  /\ Baseline
  /\ PINB_BUTTON \in {0, 1}
  /\ PINB_CPU_CTRL \in {0, 1}
  /\ GIFR_PCIF = 0
  /\ GIMSK_PCIE = 0
  /\ SREG_I = 0
  /\ PCMSK_ARMED = 0
  /\ MCUCR_SE = 0
  /\ lastFrom = -1
  /\ pressRun = 0
  /\ quietRun = 0
  /\ runKind = "fresh"
  /\ heldSinceReset = FALSE
  /\ hostSeen = FALSE
  /\ sinceHeld = 0
  /\ settleCnt = 0
  /\ edgeLost = FALSE

Next ==
  \/ PollState
  \/ SleepL123 \/ SleepL124 \/ SleepL125 \/ SleepL126 \/ SleepL129 \/ SleepL130
  \/ PinChange
  \/ PinChangeWake
  \/ WatchdogReset

Spec == Init /\ [][Next]_vars

TypeOK ==
  /\ pwrCtrlState \in {PWR_STATE_off, PWR_STATE_on, PWR_STATE_on_off}
  /\ btnTime \in 0..(UINT16 - 1)
  /\ waitTimer \in 0..(UINT16 - 1)
  /\ PORTB_PWR \in {0, 1}
  /\ DDRB_CPU_BUTTON \in {0, 1}
  /\ pc \in {"run", "L123", "L124", "L125", "L126", "L129", "L130", "sleep", "wdreset"}

(* ======================================================================= *)
(* WaitMs, both variants: one call, followed read by read of TCNT0         *)
(* ======================================================================= *)
UINT8 == 256
TICKS_PER_MS == 16
WRAP_MARK == 200
POLL_DELAY_MS == 10
RESET_WAIT_MS_13 == 20
RESET_WAIT_MS_10 == 30

\* the arguments WaitMs is called with
MsValues == {POLL_DELAY_MS, RESET_WAIT_MS_13, RESET_WAIT_MS_10}

\* the 16-bit counter starts at most MaxStartBack ticks before its wrap or at
\* most MaxStartLow ticks after it
MaxStartBack == 484
MaxStartLow == 3
\* SpecWaitSkip: the counter starts MaxSkipStartLo to MaxSkipStartHi ticks before
\* its wrap, and at most MaxUnsampled ticks pass between two reads of TCNT0
MaxSkipStartLo == 163
MaxSkipStartHi == 159
MaxUnsampled == 2

\* elapsed counts ticks up to the longest wait asked for
ElapsedCap == TICKS_PER_MS * RESET_WAIT_MS_10

\* the counter's period: 8 bits on the ATtiny13, 16 bits on the ATtiny4/5/9/10
CounterPeriod(variant) == IF variant = 13 THEN UINT8 ELSE UINT16

\* a call of WaitMs(ms) with TCNT0 = start, in the variant (13: code-attiny13.c,
\* 10: code-attiny4_5_9_10.c); pc is the place in WaitMs, elapsed the ticks
\* since the call, unsampled the ticks since TCNT0 was last read or written,
\* wrapped whether a wait-for-wrap loop was entered
WaitCall(variant, ms, start) ==
  [variant |-> variant, ms |-> ms, tcnt |-> start, cnt |-> 0, i |-> 0, pc |-> "call",
   start |-> start, elapsed |-> 0, unsampled |-> 0, wrapped |-> FALSE]

\* variant of Wait13Cond: no special case for cnt == 0
Wait13Cond_NoWrapCase(cnt, tcnt) == tcnt < cnt

\* code-attiny13.c lines 42-49: the condition of the while loop of this millisecond
Wait13Cond(cnt, tcnt) ==
  IF cnt = 0 THEN tcnt > WRAP_MARK ELSE tcnt < cnt

\* code-attiny13.c lines 34-52, one read or write of TCNT0 per step
WaitMs13(w) ==
  IF w.pc = "call"
  THEN [w EXCEPT !.tcnt = 0, !.cnt = TICKS_PER_MS, !.i = 0, !.unsampled = 0,
                 !.pc = IF 0 < w.ms THEN "loop" ELSE "done"]
  ELSE IF Wait13Cond(w.cnt, w.tcnt)
  THEN [w EXCEPT !.unsampled = 0, !.wrapped = w.wrapped \/ w.cnt = 0]
  ELSE [w EXCEPT !.unsampled = 0,
                 !.wrapped = w.wrapped \/ w.cnt = 0,
                 !.cnt = (w.cnt + TICKS_PER_MS) % UINT8,
                 !.i = w.i + 1,
                 !.pc = IF w.i + 1 < w.ms THEN "loop" ELSE "done"]

\* variant of Wait10Wraps: the wait for the wrap is missing
Wait10Wraps_Never(cnt, tcnt) == FALSE

\* code-attiny4_5_9_10.c line 42
Wait10Wraps(cnt, tcnt) == cnt < tcnt

\* code-attiny4_5_9_10.c lines 37-49, one read of TCNT0 per step
WaitMs10(w) ==
  IF w.pc = "call"
  THEN [w EXCEPT !.cnt = (w.tcnt + w.ms * TICKS_PER_MS) % UINT16,
                 !.unsampled = 0, !.pc = "if"]
  ELSE IF w.pc = "if"
  THEN IF Wait10Wraps(w.cnt, w.tcnt)
       THEN [w EXCEPT !.unsampled = 0, !.pc = "wrap", !.wrapped = TRUE]
       ELSE [w EXCEPT !.unsampled = 0, !.pc = "target"]
  ELSE IF w.pc = "wrap"
  THEN IF w.tcnt > 1
       THEN [w EXCEPT !.unsampled = 0]
       ELSE [w EXCEPT !.unsampled = 0, !.pc = "target"]
  ELSE IF w.tcnt < w.cnt
       THEN [w EXCEPT !.unsampled = 0]
       ELSE [w EXCEPT !.unsampled = 0, !.pc = "done"]

\* the program's next step in WaitMs
WaitStep ==
  /\ wait.pc \notin {"none", "done"}
  /\ wait' = IF wait.variant = 13 THEN WaitMs13(wait) ELSE WaitMs10(wait)
  /\ UNCHANGED <<progVars, PINB_BUTTON, PINB_CPU_CTRL, pc, sleepRegs, histVars>>

\* the timer counts one tick (TCCR0B = 2: clock / 8)
Tick(w) ==
  [w EXCEPT !.tcnt = (w.tcnt + 1) % CounterPeriod(w.variant),
            !.elapsed = IF w.elapsed < ElapsedCap THEN w.elapsed + 1 ELSE w.elapsed,
            !.unsampled = w.unsampled + 1]

\* a tick while WaitMs runs, every counter value being read by the program
WaitTick ==
  /\ wait.pc \notin {"none", "call", "done"}
  /\ wait.unsampled = 0
  /\ wait' = Tick(wait)
  /\ UNCHANGED <<progVars, PINB_BUTTON, PINB_CPU_CTRL, pc, sleepRegs, histVars>>

\* a tick while WaitMs runs, the program reading TCNT0 at least every
\* MaxUnsampled ticks
WaitTickSkip ==
  /\ wait.pc \notin {"none", "call", "done"}
  /\ wait.unsampled < MaxUnsampled
  /\ wait' = Tick(wait)
  /\ UNCHANGED <<progVars, PINB_BUTTON, PINB_CPU_CTRL, pc, sleepRegs, histVars>>

\* 16-bit starting values around the wrap, 8-bit starting values all
StartValues(variant) ==
  IF variant = 13 THEN 0 .. (UINT8 - 1)
  ELSE (0 .. MaxStartLow) \cup ((UINT16 - MaxStartBack) .. (UINT16 - 1))

InitWait ==
  /\ PowerInit
  /\ wait \in UNION {{WaitCall(v, ms, st) : ms \in MsValues, st \in StartValues(v)} :
                     v \in {13, 10}}

NextWait == WaitStep \/ WaitTick

SpecWait == InitWait /\ [][NextWait]_vars

StartValuesSkip(variant) ==
  IF variant = 13 THEN 0 .. MaxStartLow
  ELSE (UINT16 - MaxSkipStartLo) .. (UINT16 - MaxSkipStartHi)

InitWaitSkip ==
  /\ PowerInit
  /\ wait \in UNION {{WaitCall(v, ms, st) : ms \in MsValues, st \in StartValuesSkip(v)} :
                     v \in {13, 10}}

NextWaitSkip == WaitStep \/ WaitTickSkip

\* the loop keeps running and the timer keeps counting
SpecWaitSkip ==
  InitWaitSkip /\ [][NextWaitSkip]_vars /\ WF_vars(WaitStep) /\ WF_vars(WaitTickSkip)

(* ======================================================================= *)
(* Properties                                                              *)
(* ======================================================================= *)

\* C1: a cycle that starts in off and reads HostPowerRequest true ends in on
\* with the power output enabled, whatever the two counters are (also when
\* waitTimer exceeds 10*DELAY_1S_CNT in that cycle).
C1_OffHostRequestPowersOn ==
  (lastFrom = PWR_STATE_off /\ HostPowerRequest)
    => (pwrCtrlState = PWR_STATE_on /\ PowerOutputEnabled)

\* C1 witness: off -> on in the very cycle in which the idle threshold is exceeded
C1_Witness ==
  /\ lastFrom = PWR_STATE_off
  /\ HostPowerRequest
  /\ waitTimer > 10 * DELAY_1S_CNT
  /\ pwrCtrlState = PWR_STATE_on
  /\ PowerOutputEnabled

\* C2: a cycle that starts in on and reads HostPowerRequest false ends in
\* on_off (TurningOff) with the power output disabled, GPIO_CPU_BUTTON
\* tristated and waitTimer = 0, whatever the button and btnTime are.
C2_OnHostDropTurnsOff ==
  (lastFrom = PWR_STATE_on /\ ~HostPowerRequest)
    => /\ pwrCtrlState = PWR_STATE_on_off
       /\ ~PowerOutputEnabled
       /\ HostButtonSignal = "HighImpedance"
       /\ waitTimer = 0

\* C2 witness: the host request drops while the button is held and was being repeated
C2_Witness ==
  /\ lastFrom = PWR_STATE_on
  /\ ~HostPowerRequest
  /\ ButtonPressed
  /\ btnTime > 1
  /\ pwrCtrlState = PWR_STATE_on_off

\* C3: a cycle that starts in on and reads HostPowerRequest true ends in
\* on_off (power disabled, GPIO_CPU_BUTTON tristated, waitTimer = 0) exactly
\* when btnTime exceeds 4*DELAY_1S_CNT in it, that is when the button has read
\* pressed for at least 4*DELAY_1S_CNT+1 consecutive cycles; otherwise it
\* stays in on and the button has read pressed for at most 4*DELAY_1S_CNT cycles.
C3_OnLongHoldTurnsOff ==
  (lastFrom = PWR_STATE_on /\ HostPowerRequest)
    => \/ /\ pwrCtrlState = PWR_STATE_on_off
          /\ btnTime > 4 * DELAY_1S_CNT
          /\ pressRun >= 4 * DELAY_1S_CNT + 1
          /\ ~PowerOutputEnabled
          /\ HostButtonSignal = "HighImpedance"
          /\ waitTimer = 0
       \/ /\ pwrCtrlState = PWR_STATE_on
          /\ btnTime <= 4 * DELAY_1S_CNT
          /\ pressRun <= 4 * DELAY_1S_CNT

\* C3 witness: the long hold ends on while the host still requests power, in
\* the cycle of the (4*DELAY_1S_CNT+1)-th consecutive pressed reading
C3_Witness ==
  /\ lastFrom = PWR_STATE_on
  /\ HostPowerRequest
  /\ pwrCtrlState = PWR_STATE_on_off
  /\ pressRun = 4 * DELAY_1S_CNT + 1

\* C4: after a cycle that starts and ends in on, GPIO_CPU_BUTTON is driven low
\* if 1 <= btnTime <= 4*DELAY_1S_CNT and tristated if btnTime = 0; it is
\* tristated in the first cycle in which the button reads released.
C4_OnRepeatsButton ==
  (lastFrom = PWR_STATE_on /\ pwrCtrlState = PWR_STATE_on)
    => /\ (1 <= btnTime /\ btnTime <= 4 * DELAY_1S_CNT)
            => HostButtonSignal = "DrivenLow"
       /\ btnTime = 0 => HostButtonSignal = "HighImpedance"
       /\ ~ButtonPressed => HostButtonSignal = "HighImpedance"
       /\ btnTime <= 4 * DELAY_1S_CNT

\* C4 witness: a cycle in on with the button held and repeated to the host
C4_Witness ==
  /\ lastFrom = PWR_STATE_on
  /\ pwrCtrlState = PWR_STATE_on
  /\ btnTime = 4 * DELAY_1S_CNT
  /\ HostButtonSignal = "DrivenLow"

\* C5: started in off, readings of HostPowerRequest = false and ButtonPressed =
\* false in consecutive cycles leave off after at most 10*DELAY_1S_CNT+1 of
\* them, and the cycle that leaves off ends in on_off with the power output
\* disabled; when all cycles since reset read so, off is left exactly in cycle
\* 10*DELAY_1S_CNT+1.
C5_OffIdleTurnsOff ==
  /\ pwrCtrlState = PWR_STATE_off => quietRun <= 10 * DELAY_1S_CNT
  /\ (lastFrom = PWR_STATE_off /\ quietRun >= 1 /\ pwrCtrlState # PWR_STATE_off)
       => (pwrCtrlState = PWR_STATE_on_off /\ ~PowerOutputEnabled)
  /\ (runKind = "quiet" /\ lastFrom = PWR_STATE_off)
       => /\ quietRun <= 10 * DELAY_1S_CNT => pwrCtrlState = PWR_STATE_off
          /\ quietRun > 10 * DELAY_1S_CNT
               => (quietRun = 10 * DELAY_1S_CNT + 1 /\ pwrCtrlState = PWR_STATE_on_off)

\* C5 witness: cycle 10*DELAY_1S_CNT+1 of an all-quiet run from reset
C5_Witness ==
  /\ runKind = "quiet"
  /\ lastFrom = PWR_STATE_off
  /\ quietRun = 10 * DELAY_1S_CNT + 1
  /\ pwrCtrlState = PWR_STATE_on_off
  /\ ~PowerOutputEnabled

\* C6: when every cycle since reset read ButtonPressed = true and
\* HostPowerRequest = false, the power output is disabled (state off) up to
\* cycle DELAY_1S_CNT and in cycle DELAY_1S_CNT+1 it is enabled with the state
\* still off and waitTimer = 0.
C6_OffButtonHoldPowersOn ==
  runKind = "press"
    => /\ pressRun <= DELAY_1S_CNT
            => (pwrCtrlState = PWR_STATE_off /\ ~PowerOutputEnabled)
       /\ pressRun = DELAY_1S_CNT + 1
            => (pwrCtrlState = PWR_STATE_off /\ PowerOutputEnabled /\ waitTimer = 0)

\* C6 witness: cycle DELAY_1S_CNT+1 of a button hold from reset
C6_Witness ==
  /\ runKind = "press"
  /\ pressRun = DELAY_1S_CNT + 1
  /\ PowerOutputEnabled
  /\ pwrCtrlState = PWR_STATE_off

\* C7: every cycle, in every state, leaves btnTime at 0 if the button read
\* released and at its previous value plus 1 if it read pressed (below the
\* 16-bit wrap); nothing else in the cycle changes it.
C7_ButtonHoldCounter ==
  [][(pc = "run" /\ btnTime < UINT16 - 1)
       => btnTime' = IF ButtonPressed' THEN btnTime + 1 ELSE 0]_vars

\* C7 witness: the counter has counted pressed readings in cycles that
\* started in on_off
C7_Witness ==
  /\ lastFrom = PWR_STATE_on_off
  /\ pc = "run"
  /\ ButtonPressed
  /\ btnTime >= 2
  /\ waitTimer = btnTime

\* C8 (as claimed): a cycle that starts in off, reads HostPowerRequest false
\* and has btnTime > DELAY_1S_CNT ends in off with the power output enabled.
C8_HeldButtonWinsOverIdle ==
  (lastFrom = PWR_STATE_off /\ ~HostPowerRequest /\ btnTime > 1 * DELAY_1S_CNT)
    => (pwrCtrlState = PWR_STATE_off /\ PowerOutputEnabled)

\* C9 (as claimed): in on_off the power output is disabled, and the
\* controller never sleeps with the power output enabled.
C9_TurningOffUnpowered ==
  /\ pwrCtrlState = PWR_STATE_on_off => ~PowerOutputEnabled
  /\ pc = "sleep" => ~PowerOutputEnabled

\* C10 (as claimed): in off the power output is disabled.
C10_OffUnpowered ==
  pwrCtrlState = PWR_STATE_off => ~PowerOutputEnabled

\* C10 (amended): in off the power output is enabled if and only if, since the
\* reset, a cycle that started in off had btnTime > DELAY_1S_CNT (the button
\* was held for the power-on time); until then the device is unpowered.
C10_OffUnpoweredUntilHeld ==
  pwrCtrlState = PWR_STATE_off => (PowerOutputEnabled <=> heldSinceReset)

\* C10 witness: off and still unpowered after a button press shorter than the
\* power-on hold time
C10_Witness ==
  /\ pwrCtrlState = PWR_STATE_off
  /\ ~PowerOutputEnabled
  /\ btnTime = DELAY_1S_CNT
  /\ ~heldSinceReset

\* C11 (as claimed): the sleep sequence is entered only from on_off and only
\* after more than 3*DELAY_1S_CNT cycles in on_off, on every path into on_off.
C11_SleepOnlyAfterSettle ==
  InSleepSequence
    => (pwrCtrlState = PWR_STATE_on_off /\ settleCnt > 3 * DELAY_1S_CNT)

\* C12: while the CPU sleeps nothing the program owns changes, and it sleeps
\* on until a watched pin has changed (sleep is entered with no interrupt
\* pending); after the wake-up no further cycle runs in on_off, the next
\* state of the program is the restart baseline.
C12_SleepThenRestart ==
  [][ /\ (pc # "sleep" /\ pc' = "sleep") => GIFR_PCIF' = 0
      /\ pc = "sleep"
           => /\ progVars' = progVars
              /\ pc' = "sleep"
                   => (PINB_BUTTON' # PINB_BUTTON \/ PINB_CPU_CTRL' # PINB_CPU_CTRL)
              /\ pc' # "sleep" => (pc' = "wdreset" /\ GIFR_PCIF = 1)
      /\ pc = "wdreset"
           => (Baseline' /\ HostButtonSignal' = "HighImpedance" /\ ~PowerOutputEnabled')
    ]_vars

\* C12 witness: woken from sleep by a pin change, before the restart
C12_Witness ==
  /\ pc = "wdreset"
  /\ pwrCtrlState = PWR_STATE_on_off
  /\ waitTimer = 3 * DELAY_1S_CNT + 1
  /\ ~edgeLost

\* C19 (as claimed): the CPU is never asleep after the handler has consumed
\* a pin change that came between arming PCMSK and sleep_cpu().
C19_NoLostWakeup ==
  ~(pc = "sleep" /\ edgeLost /\ GIFR_PCIF = 0)

\* C15 (as claimed): a cycle applies only the first matching row of the
\* transition table. From off the cycle's result is that of the if / else-if
\* chain idle, button, host request; from on a cycle that leaves on changes
\* nothing but what its row says and a cycle that stays changes only
\* GPIO_CPU_BUTTON.
C15_FirstMatchOnly ==
  [][ pc = "run" =>
        /\ pwrCtrlState = PWR_STATE_off
             => LET r == CaseOff_FirstMatch(Counters(Ctx, PINB_BUTTON'), PINB_CPU_CTRL')
                IN /\ pwrCtrlState' = r.pwrCtrlState
                   /\ waitTimer' = r.waitTimer
                   /\ PORTB_PWR' = r.PORTB_PWR
                   /\ DDRB_CPU_BUTTON' = r.DDRB_CPU_BUTTON
        /\ pwrCtrlState = PWR_STATE_on
             => \/ /\ pwrCtrlState' = PWR_STATE_on_off
                   /\ waitTimer' = 0 /\ PORTB_PWR' = 1 /\ DDRB_CPU_BUTTON' = 0
                \/ /\ pwrCtrlState' = PWR_STATE_on
                   /\ waitTimer' = waitTimer + 1 /\ PORTB_PWR' = PORTB_PWR
    ]_vars

\* C16: a cycle in which no condition of the current state matches changes
\* only the counters: in on_off with waitTimer not above 3*DELAY_1S_CNT after
\* the update, whatever the inputs read, and in off with waitTimer not above
\* 10*DELAY_1S_CNT, btnTime not above DELAY_1S_CNT and HostPowerRequest false,
\* the state, the power output and GPIO_CPU_BUTTON stay as they are and the
\* loop goes on.
C16_NoMatchNoChange ==
  [][ ( /\ pc = "run"
        /\ \/ /\ pwrCtrlState = PWR_STATE_on_off
              /\ waitTimer + 1 <= 3 * DELAY_1S_CNT
           \/ /\ pwrCtrlState = PWR_STATE_off
              /\ waitTimer + 1 <= 10 * DELAY_1S_CNT
              /\ btnTime' <= 1 * DELAY_1S_CNT
              /\ ~HostPowerRequest' )
      => /\ pwrCtrlState' = pwrCtrlState
         /\ PowerOutputEnabled' = PowerOutputEnabled
         /\ HostButtonSignal' = HostButtonSignal
         /\ waitTimer' = waitTimer + 1
         /\ pc' = "run"
    ]_vars

\* C16 witness: on_off went through cycles that read the button pressed and
\* the host request true, and is still on_off
C16_Witness ==
  /\ lastFrom = PWR_STATE_on_off
  /\ pwrCtrlState = PWR_STATE_on_off
  /\ pc = "run"
  /\ HostPowerRequest
  /\ ButtonPressed
  /\ settleCnt >= 2

\* C17: in on the power output is enabled; a cycle that started in on ends
\* with the power output disabled only if it has left on.
C17_OnIsPowered ==
  /\ pwrCtrlState = PWR_STATE_on => PowerOutputEnabled
  /\ (lastFrom = PWR_STATE_on /\ ~PowerOutputEnabled) => pwrCtrlState # PWR_STATE_on

\* C17 witness: on entered by the host request alone, the button never
\* having switched the power on
C17_Witness ==
  /\ pwrCtrlState = PWR_STATE_on
  /\ lastFrom = PWR_STATE_off
  /\ ~heldSinceReset
  /\ PowerOutputEnabled

\* C18: GPIO_CPU_BUTTON is driven low only in on; in off and in on_off, and
\* after every reset, it is tristated.
C18_ButtonRepeatOnlyInOn ==
  /\ HostButtonSignal = "DrivenLow" => pwrCtrlState = PWR_STATE_on
  /\ pwrCtrlState \in {PWR_STATE_off, PWR_STATE_on_off}
       => HostButtonSignal = "HighImpedance"

\* C18 witness: on was left by the long button hold, during which
\* GPIO_CPU_BUTTON was driven low
C18_Witness ==
  /\ lastFrom = PWR_STATE_on
  /\ pwrCtrlState = PWR_STATE_on_off
  /\ HostPowerRequest
  /\ btnTime > 4 * DELAY_1S_CNT
  /\ HostButtonSignal = "HighImpedance"

\* C20 (as claimed): once the button has switched the power on in off and
\* while HostPowerRequest has never read true, the power output is enabled
\* with the button released only in off and for at most 10*DELAY_1S_CNT
\* cycles since the latest cycle with btnTime > DELAY_1S_CNT; after that the
\* power output is disabled and the state is on_off.
C20_BootTimeout ==
  (heldSinceReset /\ ~hostSeen /\ PowerOutputEnabled /\ ~ButtonPressed)
    => (pwrCtrlState = PWR_STATE_off /\ sinceHeld <= 10 * DELAY_1S_CNT)

\* C13: when WaitMs(ms) returns, at least 16*ms ticks have passed since the
\* call, in both variants, for ms = 10, 20, 30 and every starting value of
\* the counter, every counter value being read by the loop.
C13_NoUnderWait ==
  wait.pc = "done" => wait.elapsed >= TICKS_PER_MS * wait.ms

\* C13 witness: the 16-bit variant has returned from a wait whose target
\* wrapped around
C13_Witness ==
  /\ wait.pc = "done"
  /\ wait.variant = 10
  /\ wait.wrapped
  /\ wait.cnt < wait.start
  /\ wait.elapsed = TICKS_PER_MS * wait.ms

\* C14 (as claimed): every call of WaitMs returns, also when the loop misses
\* counter values between two reads of TCNT0.
C14_WaitTerminates == <>(wait.pc = "done")

====
